---- MODULE Spec2Model ----
(***************************************************************************)
(* Model of the httpx RequestBuilder (package httpx).                       *)
(*                                                                         *)
(* The repository carries two revisions of request.go: src/request.go      *)
(* (Body is a plain assignment, MultipartForm exists) and the revision     *)
(* embedded at src/request_test.go:178-410 (Body guards on the sticky      *)
(* error and runs the type switch that derives ContentLength and GetBody,  *)
(* MultipartForm does not exist).  The variable `build` says which one is  *)
(* compiled; every claim is checked for both.                              *)
(*                                                                         *)
(* Strings whose content the code inspects or produces (header names, raw  *)
(* query, body bytes) are sequences of one-character strings.              *)
(***************************************************************************)
EXTENDS Integers, Sequences, FiniteSets, TLC

\* ------------------------------------------------------------------ bounds
\* Configuration calls made on one builder between New and the terminal call.
MaxCalls == 2
\* Largest low word passed to Retry.
MaxRetry == 3

\* ------------------------------------------------------------- option type
\* A Go nil pointer / nil interface is the empty tuple, a non-nil one <<v>>.
Nil == <<>>
Some(v) == <<v>>
IsNil(o) == o = <<>>
Val(o) == o[1]

\* A nil error.
NoErr == "nil"

Max(a, b) == IF a >= b THEN a ELSE b
Min(a, b) == IF a <= b THEN a ELSE b

RECURSIVE Concat(_)
\* Concatenation of a sequence of sequences.
Concat(ss) == IF ss = <<>> THEN <<>> ELSE Head(ss) \o Concat(Tail(ss))

\* ------------------------------------------------------------------ chars
Lowers == <<"a","b","c","d","e","f","g","h","i","j","k","l","m",
            "n","o","p","q","r","s","t","u","v","w","x","y","z">>
Uppers == <<"A","B","C","D","E","F","G","H","I","J","K","L","M",
            "N","O","P","Q","R","S","T","U","V","W","X","Y","Z">>
Digits == <<"0","1","2","3","4","5","6","7","8","9">>

IsIn(c, s) == \E i \in 1..Len(s) : s[i] = c
IndexOf(c, s) == CHOOSE i \in 1..Len(s) : s[i] = c
ToUpper(c) == IF IsIn(c, Lowers) THEN Uppers[IndexOf(c, Lowers)] ELSE c
ToLower(c) == IF IsIn(c, Uppers) THEN Lowers[IndexOf(c, Uppers)] ELSE c

\* textproto's token characters, restricted to the ones the model uses.
ValidHeaderFieldByte(c) == IsIn(c, Lowers) \/ IsIn(c, Uppers) \/ IsIn(c, Digits) \/ c = "-"

\* net/textproto.CanonicalMIMEHeaderKey, which http.Header.Set applies to the
\* key: upper-case the first letter and every letter after a hyphen, lower-case
\* the rest; a key with a non-token byte is returned unchanged.
CanonicalMIMEHeaderKey(k) ==
    IF \E i \in 1..Len(k) : ~ValidHeaderFieldByte(k[i])
    THEN k
    ELSE [i \in 1..Len(k) |->
            IF i = 1 \/ k[i-1] = "-" THEN ToUpper(k[i]) ELSE ToLower(k[i])]

ContentType == <<"C","o","n","t","e","n","t","-","T","y","p","e">>

\* A header value: the literal `text` followed by the characters `tail`.
Str(text) == [text |-> text, tail |-> <<>>]


\* ------------------------------------------------------------ environment
\* The revisions of request.go under src/.
Builds == {"request.go", "request_test.go:178"}

\* http.NewRequest's URL parsing (net/url.Parse, outside the repository) on
\* the URLs the model passes to New: the parse error and the raw query.
ParseURL(url) ==
    CASE url = "http://localhost" ->
            [err |-> NoErr, RawQuery |-> <<>>]
      [] url = "http://localhost?a=1" ->
            [err |-> NoErr, RawQuery |-> <<"a","=","1">>]
      [] url = "://bad" ->
            [err |-> "parse \"://bad\": missing protocol scheme", RawQuery |-> <<>>]

Urls == {"http://localhost", "http://localhost?a=1", "://bad"}

\* A Go uint of the platform's width W is hi * 2^(W-1) + lo, lo < 2^(W-1):
\* hi is the top bit, which is the sign bit after the conversion to int.
Uint(hi, lo) == [hi |-> hi, lo |-> lo]
UintIsZero(u) == u.hi = 0 /\ u.lo = 0

\* The conversion int(u) of request.go:235 as a sign and a magnitude test:
\* i < int(u) for a small non-negative i.
LessThanInt(i, u) == u.hi = 0 /\ i < u.lo

\* -------------------------------------------------------------- body values
\* An io.ReadCloser value: its dynamic type, the reader it wraps (for
\* io.NopCloser), the bytes of the source and the read position.
Reader(typ, inner, data) == [typ |-> typ, inner |-> inner, data |-> data, pos |-> 0]

\* io.NopCloser(r): the dynamic type of the result is io's unexported wrapper.
NopCloser(inner, data) == Reader("io.nopCloser", inner, data)

\* http.NoBody.
NoBody == Reader("http.noBody", "http.noBody", <<>>)

\* Unread bytes of a reader (bytes.Buffer.Len, bytes.Reader.Len, strings.Reader.Len).
Remaining(rd) == SubSeq(rd.data, rd.pos + 1, Len(rd.data))

\* The dynamic type a type switch on an io.ReadCloser sees.
DynType(body) == IF IsNil(body) THEN "nil" ELSE Val(body).typ

\* ------------------------------------------------------------ the builder
\* http.NewRequest(GET, url, nil): the draft request.
NewRequest(rawQuery) ==
    [Method        |-> "GET",
     RawQuery      |-> rawQuery,
     Header        |-> [k \in {} |-> <<>>],
     Form          |-> [k \in {} |-> <<>>],
     Body          |-> Nil,
     ContentLength |-> 0,
     GetBody       |-> Nil,
     ctx           |-> "background"]

\* New: the builder after construction.  `panicked` is not a field of the
\* struct: it records that a call on the builder dereferenced a nil request.
New(url) ==
    LET p == ParseURL(url) IN
    [retryTimes |-> Uint(0, 0),
     err        |-> p.err,
     req        |-> IF p.err = NoErr THEN Some(NewRequest(p.RawQuery)) ELSE Nil,
     panicked   |-> FALSE]

\* Err.
Err(b) == b.err

\* A nil pointer dereference in a call on b.
Panic(b) == [b EXCEPT !.panicked = TRUE]

\* Method: no guard on the sticky error, r.req is dereferenced.
Method(b, method) ==
    IF IsNil(b.req) THEN Panic(b)
    ELSE [b EXCEPT !.req = Some([Val(b.req) EXCEPT !.Method = method])]

Get(b) == Method(b, "GET")
Post(b) == Method(b, "POST")
Put(b) == Method(b, "PUT")
Patch(b) == Method(b, "PATCH")
Delete(b) == Method(b, "DELETE")
Head_(b) == Method(b, "HEAD")
Connect(b) == Method(b, "CONNECT")
Options(b) == Method(b, "OPTIONS")
Trace(b) == Method(b, "TRACE")

\* Body, had it also dropped the Content-Type header.
BodyDropsContentType(b, body) ==
    IF IsNil(b.req) THEN Panic(b)
    ELSE LET q == Val(b.req) IN
         [b EXCEPT !.req = Some([q EXCEPT
              !.Body = body,
              !.Header = [k \in DOMAIN q.Header \ {ContentType} |-> q.Header[k]]])]

\* Body of src/request.go: a plain assignment, no guard.
Body(b, body) ==
    IF IsNil(b.req) THEN Panic(b)
    ELSE [b EXCEPT !.req = Some([Val(b.req) EXCEPT !.Body = body])]

\* The replay function built for a *bytes.Buffer: a new bytes.Reader over
\* buf := v.Bytes(), the unread bytes.
BufferGetBody(rd) == NopCloser("*bytes.Reader", Remaining(rd))

\* The replay function built for a *bytes.Reader or *strings.Reader: a copy of
\* the reader struct (snapshot := *v), position included.
SnapshotGetBody(rd) == [rd EXCEPT !.typ = "io.nopCloser"]

\* Body of the revision at src/request_test.go:253: guard, assignment, the
\* type switch on the dynamic type of body, the NoBody normalisation.
BodyMaterializer(b, body) ==
    IF b.err # NoErr THEN b
    ELSE IF IsNil(b.req) THEN Panic(b)
    ELSE
    LET q0 == [Val(b.req) EXCEPT !.Body = body]
        t  == DynType(body)
        q1 == CASE t = "*bytes.Buffer" ->
                    [q0 EXCEPT !.ContentLength = Len(Remaining(Val(body))),
                               !.GetBody = Some(BufferGetBody(Val(body)))]
                [] t \in {"*bytes.Reader", "*strings.Reader"} ->
                    [q0 EXCEPT !.ContentLength = Len(Remaining(Val(body))),
                               !.GetBody = Some(SnapshotGetBody(Val(body)))]
                [] OTHER -> q0
        q2 == IF ~IsNil(q1.GetBody) /\ q1.ContentLength = 0
              THEN [q1 EXCEPT !.Body = Some(NoBody), !.GetBody = Some(NoBody)]
              ELSE q1
    IN [b EXCEPT !.req = Some(q2)]

\* A Set that stores the key as written, without canonicalizing it.
HeaderSetVerbatim(h, key, value) ==
    [k \in DOMAIN h \cup {key} |-> IF k = key THEN <<value>> ELSE h[k]]

\* http.Header.Set.
HeaderSet(h, key, value) ==
    LET ck == CanonicalMIMEHeaderKey(key) IN
    [k \in DOMAIN h \cup {ck} |-> IF k = ck THEN <<value>> ELSE h[k]]

\* http.Header.Get: the first value stored under the canonical key, or "".
HeaderGet(h, key) ==
    LET ck == CanonicalMIMEHeaderKey(key) IN
    IF ck \in DOMAIN h /\ h[ck] # <<>> THEN h[ck][1] ELSE Str("")

\* SetHeader.
SetHeader(b, key, value) ==
    IF b.err # NoErr THEN b
    ELSE [b EXCEPT !.req = Some([Val(b.req) EXCEPT
                                   !.Header = HeaderSet(Val(b.req).Header, key, value)])]

\* Form.
Form(b, values) ==
    IF b.err # NoErr THEN b
    ELSE [b EXCEPT !.req = Some([Val(b.req) EXCEPT !.Form = values])]

\* Retry: no guard on the sticky error.
Retry(b, retryTimes) == [b EXCEPT !.retryTimes = retryTimes]

\* ------------------------------------------------------ net/url encoding
\* The bytes the model uses, in ASCII order.
AsciiOrder == <<" ", "\"", "#", "%", "&", "+", ",", "-", ".", "/">> \o Digits
              \o <<":", ";", "<", "=", ">", "?">> \o Uppers
              \o <<"\\", "_">> \o Lowers \o <<"{", "}", "~">>
Code(c) == IndexOf(c, AsciiOrder)

RECURSIVE StrLess(_, _)
\* Go's < on strings: lexicographic by byte.
StrLess(a, b) ==
    IF b = <<>> THEN FALSE
    ELSE IF a = <<>> THEN TRUE
    ELSE IF Head(a) = Head(b) THEN StrLess(Tail(a), Tail(b))
    ELSE Code(Head(a)) < Code(Head(b))

RECURSIVE SortKeys(_)
\* sort.Strings over a set of keys.
SortKeys(S) ==
    IF S = {} THEN <<>>
    ELSE LET m == CHOOSE x \in S : \A y \in S \ {x} : StrLess(x, y)
         IN <<m>> \o SortKeys(S \ {m})

\* The two hex digits of a byte that url.QueryEscape escapes.
HexOf(c) ==
    CASE c = "\"" -> <<"2","2">>
      [] c = "#" -> <<"2","3">>
      [] c = "%" -> <<"2","5">>
      [] c = "&" -> <<"2","6">>
      [] c = "+" -> <<"2","B">>
      [] c = "," -> <<"2","C">>
      [] c = "/" -> <<"2","F">>
      [] c = ":" -> <<"3","A">>
      [] c = ";" -> <<"3","B">>
      [] c = "<" -> <<"3","C">>
      [] c = "=" -> <<"3","D">>
      [] c = ">" -> <<"3","E">>
      [] c = "?" -> <<"3","F">>
      [] c = "\\" -> <<"5","C">>
      [] c = "{" -> <<"7","B">>
      [] c = "}" -> <<"7","D">>

\* url.QueryEscape on one byte: unreserved bytes stay, a space becomes "+",
\* every other byte becomes %XX.
EscapeByte(c) ==
    IF IsIn(c, Lowers) \/ IsIn(c, Uppers) \/ IsIn(c, Digits) \/ c \in {"-", "_", ".", "~"}
    THEN <<c>>
    ELSE IF c = " " THEN <<"+">>
    ELSE <<"%">> \o HexOf(c)

\* url.QueryEscape.
QueryEscape(s) == Concat([i \in 1..Len(s) |-> EscapeByte(s[i])])

RECURSIVE JoinWith(_, _)
\* strings.Join.
JoinWith(parts, sep) ==
    IF parts = <<>> THEN <<>>
    ELSE IF Len(parts) = 1 THEN parts[1]
    ELSE parts[1] \o sep \o JoinWith(Tail(parts), sep)

\* url.Values.Encode: keys sorted, one key=value per value, joined by "&".
\* A url.Values is a function from keys to sequences of values.
Encode(values) ==
    LET keys == SortKeys(DOMAIN values)
        pairsOf(k) == [i \in 1..Len(values[k]) |->
                          QueryEscape(k) \o <<"=">> \o QueryEscape(values[k][i])]
    IN JoinWith(Concat([i \in 1..Len(keys) |-> pairsOf(keys[i])]), <<"&">>)

\* Query: the map is copied into a url.Values with Add and its encoding is
\* appended to RawQuery as it is.
Query(b, queries) ==
    IF b.err # NoErr THEN b
    ELSE LET query == [k \in DOMAIN queries |-> <<queries[k]>>]
         IN [b EXCEPT !.req = Some([Val(b.req) EXCEPT
                                      !.RawQuery = Val(b.req).RawQuery \o Encode(query)])]

\* AddQuery.
AddQuery(b, key, value) ==
    IF b.err # NoErr THEN b
    ELSE Query(b, [k \in {key} |-> value])

\* ------------------------------------------------------------ encoding/json
\* encoding/json's encoding of one byte of a string (HTML escaping on).
JsonByte(c) ==
    CASE c = "\"" -> <<"\\", "\"">>
      [] c = "\\" -> <<"\\", "\\">>
      [] c = "&" -> <<"\\", "u", "0", "0", "2", "6">>
      [] c = "<" -> <<"\\", "u", "0", "0", "3", "c">>
      [] c = ">" -> <<"\\", "u", "0", "0", "3", "e">>
      [] OTHER -> <<c>>

\* A JSON string literal.
JsonString(s) == <<"\"">> \o Concat([i \in 1..Len(s) |-> JsonByte(s[i])]) \o <<"\"">>

\* json.Marshal on the values the model passes to Json: an untyped nil, a
\* map[string]string (keys sorted), a channel, a float64 NaN.
Marshal(v) ==
    CASE v.kind = "nil" ->
            [data |-> <<"n","u","l","l">>, err |-> NoErr]
      [] v.kind = "map" ->
            LET keys == SortKeys(DOMAIN v.m)
                members == [i \in 1..Len(keys) |->
                              JsonString(keys[i]) \o <<":">> \o JsonString(v.m[keys[i]])]
            IN [data |-> <<"{">> \o JoinWith(members, <<",">>) \o <<"}">>, err |-> NoErr]
      [] v.kind = "chan" ->
            [data |-> <<>>, err |-> "json: unsupported type: chan int"]
      [] v.kind = "NaN" ->
            [data |-> <<>>, err |-> "json: unsupported value: NaN"]

\* ------------------------------------------------------------------ state
VARIABLES
    build,      \* the revision of request.go that is compiled
    r,          \* the RequestBuilder (with the draft request it points to)
    handles,    \* per file: handles returned by Open and not yet closed
    last,       \* the most recent call on the builder: its name and argument
    out,        \* what the most recent call returned and what it did outside r
    nCalls,     \* configuration calls made so far
    pc          \* "config" until the terminal call (Build, BuildWithContext, Do), then "done"

vars == <<build, r, handles, last, out, nCalls, pc>>

\* Body as the compiled revision defines it.
CallBody(b, body) ==
    IF build = "request.go" THEN Body(b, body) ELSE BodyMaterializer(b, body)

\* Json, had it no guard on the sticky error.
JsonNoGuard(b, v) ==
    LET m == Marshal(v) IN
    IF m.err # NoErr THEN [b EXCEPT !.err = m.err]
    ELSE CallBody(SetHeader(b, ContentType, Str("application/json")),
                  Some(NopCloser("*bytes.Buffer", m.data)))

\* Json, had it set the body and left the headers alone.
JsonNoHeader(b, v) ==
    IF b.err # NoErr THEN b
    ELSE LET m == Marshal(v) IN
         IF m.err # NoErr THEN [b EXCEPT !.err = m.err]
         ELSE CallBody(b, Some(NopCloser("*bytes.Buffer", m.data)))

\* Json, had it set the header before serializing.
JsonHeaderFirst(b, v) ==
    IF b.err # NoErr THEN b
    ELSE LET m == Marshal(v)
             b1 == SetHeader(b, ContentType, Str("application/json"))
         IN IF m.err # NoErr THEN [b1 EXCEPT !.err = m.err]
            ELSE CallBody(b1, Some(NopCloser("*bytes.Buffer", m.data)))

\* Json.
Json(b, v) ==
    IF b.err # NoErr THEN b
    ELSE LET m == Marshal(v) IN
         IF m.err # NoErr THEN [b EXCEPT !.err = m.err]
         ELSE CallBody(SetHeader(b, ContentType, Str("application/json")),
                       Some(NopCloser("*bytes.Buffer", m.data)))

\* PostForm, had it sent the encoded form without escaping it.
PostFormRaw(b, values) ==
    IF b.err # NoErr THEN b
    ELSE LET keys == SortKeys(DOMAIN values)
             pairsOf(k) == [i \in 1..Len(values[k]) |-> k \o <<"=">> \o values[k][i]]
             raw == JoinWith(Concat([i \in 1..Len(keys) |-> pairsOf(keys[i])]), <<"&">>)
         IN CallBody(SetHeader(b, ContentType, Str("application/x-www-form-urlencoded")),
                     Some(NopCloser("*strings.Reader", raw)))

\* PostForm.
PostForm(b, values) ==
    IF b.err # NoErr THEN b
    ELSE CallBody(SetHeader(b, ContentType, Str("application/x-www-form-urlencoded")),
                  Some(NopCloser("*strings.Reader", Encode(values))))

\* --------------------------------------------------------- mime/multipart
CRLF == <<"\r", "\n">>
Dashes == <<"-", "-">>
ContentDisposition ==
    <<"C","o","n","t","e","n","t","-","D","i","s","p","o","s","i","t","i","o","n",":"," ",
      "f","o","r","m","-","d","a","t","a",";"," ","n","a","m","e","=","\"">>
FilenameParam == <<"\"",";"," ","f","i","l","e","n","a","m","e","=","\"">>
OctetStream ==
    <<"C","o","n","t","e","n","t","-","T","y","p","e",":"," ",
      "a","p","p","l","i","c","a","t","i","o","n","/",
      "o","c","t","e","t","-","s","t","r","e","a","m">>

\* multipart's escapeQuotes.
EscapeQuotes(s) ==
    Concat([i \in 1..Len(s) |->
              IF s[i] \in {"\\", "\""} THEN <<"\\", s[i]>> ELSE <<s[i]>>])

\* multipart.NewWriter(body): the buffer written so far, the boundary, and
\* whether a part has been created (lastpart != nil).
NewWriter(boundary) == [buf |-> <<>>, boundary |-> boundary, started |-> FALSE]

\* Writer.CreatePart: the delimiter line, the part's header lines, a blank line.
CreatePart(w, headerLines) ==
    [w EXCEPT !.buf = w.buf \o (IF w.started THEN CRLF ELSE <<>>)
                        \o Dashes \o w.boundary \o CRLF
                        \o headerLines \o CRLF,
              !.started = TRUE]

\* A WriteField that creates the part and drops the value.
WriteFieldNoValue(w, key, value) ==
    CreatePart(w, ContentDisposition \o EscapeQuotes(key) \o <<"\"">> \o CRLF)

\* Writer.WriteField: CreateFormField, then the value.
WriteField(w, key, value) ==
    LET w1 == CreatePart(w, ContentDisposition \o EscapeQuotes(key) \o <<"\"">> \o CRLF)
    IN [w1 EXCEPT !.buf = w1.buf \o value]

\* Writer.CreateFormFile.
CreateFormFile(w, key, filename) ==
    CreatePart(w, ContentDisposition \o EscapeQuotes(key) \o FilenameParam
                  \o EscapeQuotes(filename) \o <<"\"">> \o CRLF \o OctetStream \o CRLF)

\* The closing delimiter Writer.Close writes, each time it is called.
ClosingDelimiter(boundary) == CRLF \o Dashes \o boundary \o Dashes \o CRLF

\* Writer.Close.
WriterClose(w) == [w EXCEPT !.buf = w.buf \o ClosingDelimiter(w.boundary), !.started = FALSE]

\* Writer.FormDataContentType.
FormDataContentType(w) == [text |-> "multipart/form-data; boundary=", tail |-> w.boundary]

\* The files a multipart.Form can attach: name, content, whether Open fails,
\* and whether reading fails after `readable` bytes.
FileIds == {"fA", "fB", "fC"}
FileHeader(f) ==
    CASE f = "fA" -> [Filename |-> <<"a">>, content |-> <<"x", "y">>,
                      openErr |-> NoErr, readErr |-> NoErr, readable |-> 2]
      [] f = "fB" -> [Filename |-> <<"b">>, content |-> <<"q">>,
                      openErr |-> "open b: no such file or directory",
                      readErr |-> NoErr, readable |-> 0]
      [] f = "fC" -> [Filename |-> <<"c">>, content |-> <<"z", "w">>,
                      openErr |-> NoErr,
                      readErr |-> "read c: input/output error", readable |-> 1]

\* The per-file step, had it not closed the file when io.Copy fails.
CopyFileLeak(w, key, f) ==
    LET fh == FileHeader(f)
        w1 == CreateFormFile(w, key, fh.Filename)
    IN IF fh.openErr # NoErr
       THEN [w |-> w1, err |-> fh.openErr, events |-> << <<"Open", f>> >>]
       ELSE LET w2 == [w1 EXCEPT !.buf = w1.buf \o SubSeq(fh.content, 1, fh.readable)]
            IN [w |-> w2, err |-> fh.readErr,
                events |-> IF fh.readErr # NoErr
                           THEN << <<"Open", f>> >>
                           ELSE << <<"Open", f>>, <<"Close", f>> >>]

\* Lines 168-184 of MultipartForm for one file: CreateFormFile, file.Open,
\* io.Copy, f.Close.  Returns the writer, the error and the calls made on the
\* file.
CopyFile(w, key, f) ==
    LET fh == FileHeader(f)
        w1 == CreateFormFile(w, key, fh.Filename)
    IN IF fh.openErr # NoErr
       THEN [w |-> w1, err |-> fh.openErr, events |-> << <<"Open", f>> >>]
       ELSE LET w2 == [w1 EXCEPT !.buf = w1.buf \o SubSeq(fh.content, 1, fh.readable)]
            IN [w |-> w2, err |-> fh.readErr,
                events |-> << <<"Open", f>>, <<"Close", f>> >>]

RECURSIVE WriteFields(_, _)
\* Lines 155-164: one part per value; a write to a bytes.Buffer never fails.
WriteFields(w, fields) ==
    IF fields = <<>> THEN w
    ELSE WriteFields(WriteField(w, fields[1][1], fields[1][2]), Tail(fields))

RECURSIVE CopyFiles(_, _, _)
\* Lines 165-186: the files in iteration order, stopping at the first error.
CopyFiles(w, files, events) ==
    IF files = <<>> THEN [w |-> w, err |-> NoErr, events |-> events]
    ELSE LET c == CopyFile(w, files[1][1], files[1][2])
         IN IF c.err # NoErr
            THEN [w |-> c.w, err |-> c.err, events |-> events \o c.events]
            ELSE CopyFiles(c.w, Tail(files), events \o c.events)

\* The (key, element) pairs of a map of slices, keys in the order `order`.
Flatten(m, order) ==
    Concat([i \in 1..Len(order) |->
              [j \in 1..Len(m[order[i]]) |-> <<order[i], m[order[i]][j]>>]])

\* The deferred writer.Close() runs after the return value is set: it appends
\* a closing delimiter to the buffer, which on success is the request's body.
DeferredClose(b, boundary) ==
    LET q == Val(b.req)
        rd == Val(q.Body)
    IN [b EXCEPT !.req = Some([q EXCEPT !.Body =
            Some([rd EXCEPT !.data = rd.data \o ClosingDelimiter(boundary)])])]

\* MultipartForm, for a form, the boundary NewWriter draws and the iteration
\* orders of the two maps.  Returns the builder and the calls made on files.
MultipartForm(b, form, boundary, vorder, forder) ==
    IF b.err # NoErr THEN [b |-> b, events |-> <<>>]
    ELSE LET w0 == WriteFields(NewWriter(boundary), Flatten(form.Value, vorder))
             c  == CopyFiles(w0, Flatten(form.File, forder), <<>>)
         IN IF c.err # NoErr
            THEN [b |-> [b EXCEPT !.err = c.err], events |-> c.events]
            ELSE LET contentType == FormDataContentType(c.w)
                     w1 == WriterClose(c.w)
                     b1 == SetHeader(b, ContentType, contentType)
                     b2 == CallBody(b1, Some(NopCloser("*bytes.Buffer", w1.buf)))
                 IN [b |-> DeferredClose(b2, boundary), events |-> c.events]

\* -------------------------------------------------------- terminal calls
\* BuildWithContext, had it returned the draft request along with the error.
BuildWithContextKeepsRequest(b, ctx) ==
    IF b.err # NoErr THEN [b |-> b, req |-> b.req, err |-> b.err, alias |-> TRUE]
    ELSE IF ctx = "background" THEN [b |-> b, req |-> b.req, err |-> NoErr, alias |-> TRUE]
    ELSE [b |-> b, req |-> Some([Val(b.req) EXCEPT !.ctx = ctx]), err |-> NoErr,
          alias |-> FALSE]

\* A BuildWithContext that rebinds the builder's own request to ctx and
\* returns it.
BuildWithContextRebinds(b, ctx) ==
    IF b.err # NoErr THEN [b |-> b, req |-> Nil, err |-> b.err, alias |-> FALSE]
    ELSE LET bound == Some([Val(b.req) EXCEPT !.ctx = ctx])
         IN [b |-> [b EXCEPT !.req = bound], req |-> bound, err |-> NoErr, alias |-> TRUE]

\* BuildWithContext: the builder after the call, the returned request, the
\* returned error, and whether the returned pointer is r.req itself.
\* Request.WithContext returns a shallow copy and leaves its receiver alone.
BuildWithContext(b, ctx) ==
    IF b.err # NoErr THEN [b |-> b, req |-> Nil, err |-> b.err, alias |-> FALSE]
    ELSE IF ctx = "background" THEN [b |-> b, req |-> b.req, err |-> NoErr, alias |-> TRUE]
    ELSE [b |-> b, req |-> Some([Val(b.req) EXCEPT !.ctx = ctx]), err |-> NoErr,
          alias |-> FALSE]

\* Build.
Build(b) == BuildWithContext(b, "background")

\* What one call of the transport (http.DefaultClient.Do) can do: the
\* response, the error, and how much of the request body it reads.
Outcomes ==
    {[resp |-> Some(200), err |-> NoErr, read |-> "all"],
     [resp |-> Some(500), err |-> NoErr, read |-> "all"],
     [resp |-> Nil, err |-> "dial tcp: connection refused", read |-> "none"],
     [resp |-> Nil, err |-> "write: connection reset by peer", read |-> "one"]}

\* The request body after the transport has read from it.
Consume(body, read) ==
    IF IsNil(body) THEN body
    ELSE LET rd == Val(body)
             n == Len(rd.data)
         IN Some([rd EXCEPT !.pos = CASE read = "none" -> rd.pos
                                      [] read = "one" -> Min(rd.pos + 1, n)
                                      [] read = "all" -> n])

\* The bytes a body handed to the transport yields when read to the end.
Yields(body) == IF IsNil(body) THEN <<>> ELSE Remaining(Val(body))

RECURSIVE DoLoop(_, _, _, _, _, _)
\* The loop of Do (lines 235-241) from iteration i on: body is the state of
\* req.Body, err the value of the named result err, sent the bodies handed
\* to the transport so far.
DoLoop(i, retryTimes, script, body, err, sent) ==
    IF ~LessThanInt(i, retryTimes)
    THEN [resp |-> Nil, err |-> err, calls |-> i, sent |-> sent, body |-> body]
    ELSE LET o == script[i + 1]
             sent1 == Append(sent, Yields(body))
             body1 == Consume(body, o.read)
         IN IF o.err = NoErr
            THEN [resp |-> o.resp, err |-> NoErr, calls |-> i + 1,
                  sent |-> sent1, body |-> body1]
            ELSE DoLoop(i + 1, retryTimes, script, body1, o.err, sent1)

\* Do against a transport that behaves as `script` says, attempt by attempt.
\* Returns the builder (the request body is shared with it) and the result.
Do(b, script) ==
    LET built == Build(b) IN
    IF built.err # NoErr
    THEN [b |-> built.b, resp |-> Nil, err |-> built.err, calls |-> 0, sent |-> <<>>]
    ELSE LET retryTimes == IF UintIsZero(b.retryTimes) THEN Uint(0, 1) ELSE b.retryTimes
             res == DoLoop(0, retryTimes, script, Val(built.req).Body, built.err, <<>>)
         IN [b |-> [built.b EXCEPT !.req = Some([Val(built.b.req) EXCEPT !.Body = res.body])],
             resp |-> res.resp, err |-> res.err, calls |-> res.calls, sent |-> res.sent]

\* ----------------------------------------------------------------- inputs
Methods == {"BREW"}
HeaderInputs ==
    {<<<<"c","o","n","t","e","n","t","-","t","y","p","e">>, Str("text/plain")>>,
     <<<<"X","-","A">>, Str("1")>>,
     <<<<"X","-","a">>, Str("2")>>}
ValuesInputs ==
    {<<>>, [k \in {<<"k">>} |-> << <<"v">> >>], [k \in {<<"k">>} |-> << <<"v">>, <<"&">> >>]}
QueryInputs == {[k \in {<<"b">>} |-> <<"2">>],
                [k \in {<<"b">>, <<"a">>} |-> IF k = <<"a">> THEN <<"&">> ELSE <<"2">>]}
AddQueryInputs == {<<<<"c">>, <<"3">>>>}
\* The io.ReadCloser values passed to Body: no-op closers over the readers
\* the standard library offers, and a file.  (A *bytes.Buffer, *bytes.Reader
\* or *strings.Reader has no Close method and is no io.ReadCloser.)
BodyInputs ==
    {Some(NopCloser("*strings.Reader", <<"h", "i">>)),
     Some(NopCloser("*bytes.Reader", <<>>)),
     Some(Reader("*os.File", "*os.File", <<"f">>))}
JsonInputs ==
    {[kind |-> "map", m |-> [k \in {<<"k">>} |-> <<"v", "&">>]],
     [kind |-> "nil", m |-> <<>>],
     [kind |-> "chan", m |-> <<>>],
     [kind |-> "NaN", m |-> <<>>]}
Boundaries == {<<"0">>, <<"1">>}
MultipartInputs ==
    {[Value |-> [k \in {<<"k">>} |-> << <<"v">>, <<"w">> >>],
      File |-> [k \in {<<"f">>} |-> <<"fA">>]],
     [Value |-> <<>>, File |-> [k \in {<<"f">>} |-> <<"fC", "fA">>]],
     [Value |-> <<>>, File |-> [k \in {<<"f">>, <<"g">>} |->
                                  IF k = <<"f">> THEN <<"fA">> ELSE <<"fB">>]]}
\* Counts passed to Retry: small ones, and one above the largest int.
RetryInputs == {Uint(0, 0), Uint(0, 1), Uint(0, MaxRetry), Uint(1, 0)}
Contexts == {"background", "withValue"}

\* The orders in which a Go map with key set S can be iterated.
Orders(S) == {s \in [1..Cardinality(S) -> S] : \A x \in S : \E i \in DOMAIN s : s[i] = x}

\* The transport's behaviour, attempt by attempt, for max(1, retryTimes)
\* attempts; for a count above the largest int, for the first attempt.
Scripts(b) ==
    [1..(IF b.retryTimes.hi = 1 THEN 1 ELSE Max(1, b.retryTimes.lo)) -> Outcomes]

\* ---------------------------------------------------------------- actions
\* What a configuration call returns: the builder itself, nothing else.
NoOut ==
    [req |-> Nil, alias |-> FALSE, resp |-> Nil, err |-> NoErr,
     calls |-> 0, sent |-> <<>>, script |-> <<>>, events |-> <<>>]

\* The handles left open by a sequence of calls on files.
Apply(h, events) ==
    [f \in FileIds |->
        h[f] + Cardinality({i \in DOMAIN events : events[i] = <<"Open", f>>
                                                   /\ FileHeader(f).openErr = NoErr})
             - Cardinality({i \in DOMAIN events : events[i] = <<"Close", f>>})]

\* One configuration call `op(arg)` on the builder, leaving it as b2 and
\* returning o.  A goroutine that has panicked makes no further call; a builder
\* is created per request and not reused after its terminal call.
Call(op, arg, b2, o) ==
    /\ pc = "config"
    /\ ~r.panicked
    /\ nCalls < MaxCalls
    /\ r' = b2
    /\ last' = [op |-> op, arg |-> arg]
    /\ out' = o
    /\ nCalls' = nCalls + 1
    /\ handles' = Apply(handles, o.events)
    /\ UNCHANGED <<build, pc>>

\* The terminal call `op(arg)`.
Terminal(op, arg, b2, o) ==
    /\ pc = "config"
    /\ ~r.panicked
    /\ r' = b2
    /\ last' = [op |-> op, arg |-> arg]
    /\ out' = o
    /\ pc' = "done"
    /\ UNCHANGED <<build, handles, nCalls>>

Init ==
    /\ build \in Builds
    /\ \E url \in Urls : r = New(url)
    /\ handles = [f \in FileIds |-> 0]
    /\ last = [op |-> "New", arg |-> <<>>]
    /\ out = NoOut
    /\ nCalls = 0
    /\ pc = "config"

MethodCall == \E m \in Methods : Call("Method", m, Method(r, m), NoOut)
GetCall == Call("Get", <<>>, Get(r), NoOut)
PostCall == Call("Post", <<>>, Post(r), NoOut)
PutCall == Call("Put", <<>>, Put(r), NoOut)
PatchCall == Call("Patch", <<>>, Patch(r), NoOut)
DeleteCall == Call("Delete", <<>>, Delete(r), NoOut)
HeadCall == Call("Head", <<>>, Head_(r), NoOut)
ConnectCall == Call("Connect", <<>>, Connect(r), NoOut)
OptionsCall == Call("Options", <<>>, Options(r), NoOut)
TraceCall == Call("Trace", <<>>, Trace(r), NoOut)
BodyCall == \E body \in BodyInputs : Call("Body", body, CallBody(r, body), NoOut)
SetHeaderCall == \E kv \in HeaderInputs : Call("SetHeader", kv, SetHeader(r, kv[1], kv[2]), NoOut)
FormCall == \E v \in ValuesInputs : Call("Form", v, Form(r, v), NoOut)
QueryCall == \E q \in QueryInputs : Call("Query", q, Query(r, q), NoOut)
AddQueryCall == \E kv \in AddQueryInputs : Call("AddQuery", kv, AddQuery(r, kv[1], kv[2]), NoOut)
JsonCall == \E v \in JsonInputs : Call("Json", v, Json(r, v), NoOut)
PostFormCall == \E v \in ValuesInputs : Call("PostForm", v, PostForm(r, v), NoOut)
RetryCall == \E n \in RetryInputs : Call("Retry", n, Retry(r, n), NoOut)

\* MultipartForm exists in src/request.go only.
MultipartFormCall ==
    /\ build = "request.go"
    /\ \E form \in MultipartInputs, boundary \in Boundaries :
       \E vorder \in Orders(DOMAIN form.Value), forder \in Orders(DOMAIN form.File) :
          LET res == MultipartForm(r, form, boundary, vorder, forder)
          IN Call("MultipartForm", [form |-> form, forder |-> forder], res.b,
                  [NoOut EXCEPT !.events = res.events])

BuildCall ==
    LET res == Build(r)
    IN Terminal("Build", <<>>, res.b,
            [NoOut EXCEPT !.req = res.req, !.err = res.err, !.alias = res.alias])

BuildWithContextCall ==
    \E ctx \in Contexts :
       LET res == BuildWithContext(r, ctx)
       IN Terminal("BuildWithContext", ctx, res.b,
               [NoOut EXCEPT !.req = res.req, !.err = res.err, !.alias = res.alias])

DoCall ==
    \E script \in Scripts(r) :
       LET res == Do(r, script)
       IN Terminal("Do", <<>>, res.b,
               [NoOut EXCEPT !.resp = res.resp, !.err = res.err, !.calls = res.calls,
                             !.sent = res.sent, !.script = script])

Next ==
    \/ MethodCall \/ GetCall \/ PostCall \/ PutCall \/ PatchCall \/ DeleteCall
    \/ HeadCall \/ ConnectCall \/ OptionsCall \/ TraceCall
    \/ BodyCall \/ SetHeaderCall \/ FormCall \/ QueryCall \/ AddQueryCall
    \/ JsonCall \/ PostFormCall \/ MultipartFormCall \/ RetryCall
    \/ BuildCall \/ BuildWithContextCall \/ DoCall

Spec == Init /\ [][Next]_vars

\* ================================================================= claims
\* A step that is one configuration call.
ConfigStep == nCalls' = nCalls + 1

\* The draft request's body and its Content-Type header.
BodyOf(b) == Val(b.req).Body
ContentTypeOf(b) == HeaderGet(Val(b.req).Header, ContentType)

\* The body kinds the spec calls replayable.
Recognized == {"*bytes.Buffer", "*bytes.Reader", "*strings.Reader"}

\* C1: once the sticky error is set, every configuration call leaves the
\* method, query, headers, form, body and retry count as they were.
C1_StickyErrorMakesCallsNoOps ==
    [][(ConfigStep /\ r.err # NoErr)
          => (r'.req = r.req /\ r'.retryTimes = r.retryTimes)]_vars

\* C2: with the sticky error set, Build, BuildWithContext and Do return
\* exactly that error, no request and no response, and Do calls the transport
\* zero times.
C2_TerminalReturnsStickyError ==
    (pc = "done" /\ r.err # NoErr)
       => /\ out.err = r.err
          /\ IsNil(out.req)
          /\ IsNil(out.resp)
          /\ out.calls = 0
          /\ out.sent = <<>>

\* Do was called on a builder whose Json call had failed.
C2_Witness ==
    /\ pc = "done"
    /\ last.op = "Do"
    /\ r.err = "json: unsupported type: chan int"
    /\ ~IsNil(r.req)
    /\ out.err = r.err

\* C3: the sticky error is write-once: no call replaces or clears it, and it
\* is only ever latched by a failing Json or MultipartForm call (or by New).
C3_StickyErrorWriteOnce ==
    [][/\ r.err # NoErr => r'.err = r.err
       /\ (r.err = NoErr /\ r'.err # NoErr)
             => /\ last'.op \in {"Json", "MultipartForm"}
                /\ last'.op = "Json" => r'.err = Marshal(last'.arg).err]_vars

\* A Json call that fails by itself was made on a builder that already held
\* a different error.
C3_Witness ==
    /\ last.op = "Json"
    /\ Marshal(last.arg).err # NoErr
    /\ r.err # NoErr
    /\ r.err # Marshal(last.arg).err

\* The first attempt of a script that reports no transport error, or 0.
FirstSuccess(script) ==
    IF \E k \in DOMAIN script : script[k].err = NoErr
    THEN CHOOSE k \in DOMAIN script :
            /\ script[k].err = NoErr
            /\ \A j \in 1..(k - 1) : script[j].err # NoErr
    ELSE 0

\* Do has returned on a builder without a sticky error.
DoReturned == pc = "done" /\ last.op = "Do" /\ r.err = NoErr

\* C4: with no sticky error and N = max(1, retryTimes), Do stops at the first
\* attempt k <= N without a transport error, returns that attempt's response
\* with a nil error and has made exactly k transport calls.  (A script never
\* has more than N attempts.)
C4_DoStopsAtFirstSuccess ==
    DoReturned =>
       LET k == FirstSuccess(out.script) IN
       k > 0 => /\ out.resp = out.script[k].resp
                /\ out.err = NoErr
                /\ out.calls = k

\* C5: with no sticky error and N = max(1, retryTimes), if all N attempts
\* fail, Do makes exactly N calls and returns no response and the error of
\* the N-th attempt.  For a count above the largest int the script holds the
\* first attempt only, and the claim asks for a call and an error at least.
C5_DoReturnsLastError ==
    (DoReturned /\ FirstSuccess(out.script) = 0) =>
       /\ IsNil(out.resp)
       /\ out.err # NoErr
       /\ out.calls >= Len(out.script)
       /\ r.retryTimes.hi = 0 =>
             /\ out.calls = Max(1, r.retryTimes.lo)
             /\ out.err = out.script[Max(1, r.retryTimes.lo)].err

\* C6: when the body comes from a replayable source and Do makes more than
\* one attempt, every attempt hands the transport a body that yields the
\* complete original bytes.
C6_EveryAttemptGetsFullBody ==
    (/\ DoReturned
     /\ out.calls >= 2
     /\ ~IsNil(BodyOf(r))
     /\ Val(BodyOf(r)).inner \in Recognized)
       => \A i \in DOMAIN out.sent : out.sent[i] = Val(BodyOf(r)).data

\* The bytes of the source the most recent body-setting call passed to Body.
SourceBytes ==
    CASE last.op = "Body" -> Val(last.arg).data
      [] last.op = "Json" -> Marshal(last.arg).data
      [] last.op = "PostForm" -> Encode(last.arg)

\* Body has just been given a no-op closer over a recognized source, by the
\* caller or by Json or PostForm.
RecognizedBodyJustSet ==
    /\ pc = "config"
    /\ r.err = NoErr
    /\ ~r.panicked
    /\ last.op \in {"Body", "Json", "PostForm"}
    /\ last.op = "Body" => (Val(last.arg).typ = "io.nopCloser"
                            /\ Val(last.arg).inner \in Recognized)

\* C7: whenever Body is given a recognized source wrapped in a no-op closer,
\* the declared content length is the byte count of the source, a replay
\* function is attached, and it yields the source's bytes.
C7_RecognizedBodyHasLengthAndReplay ==
    RecognizedBodyJustSet =>
       /\ Val(r.req).ContentLength = Len(SourceBytes)
       /\ ~IsNil(Val(r.req).GetBody)
       /\ Yields(Val(r.req).GetBody) = SourceBytes

\* C8 as stated: after a raw Body call no Content-Type of a replaced Json,
\* PostForm or MultipartForm body is left.
C8_BodyLeavesNoStaleContentType ==
    (pc = "config" /\ last.op = "Body" /\ r.err = NoErr /\ ~r.panicked)
       => /\ ContentTypeOf(r) \notin {Str("application/json"),
                                       Str("application/x-www-form-urlencoded")}
          /\ ContentTypeOf(r).text # "multipart/form-data; boundary="

\* Whether s ends with suffix.
HasSuffix(s, suffix) ==
    /\ Len(s) >= Len(suffix)
    /\ SubSeq(s, Len(s) - Len(suffix) + 1, Len(s)) = suffix

\* C8, amended: every successful Json, PostForm or MultipartForm call sets
\* the body to its own encoding and Content-Type to its own type; a raw Body
\* call replaces the body only and leaves every header, Content-Type
\* included, as it was; no other configuration call touches the body, and
\* none but SetHeader touches Content-Type.
C8_BodyAndContentTypeFollowLastSetter ==
    [][(ConfigStep /\ r.err = NoErr /\ r'.err = NoErr /\ ~r'.panicked) =>
        CASE last'.op = "Json" ->
                /\ BodyOf(r') = Some(NopCloser("*bytes.Buffer", Marshal(last'.arg).data))
                /\ ContentTypeOf(r') = Str("application/json")
          [] last'.op = "PostForm" ->
                /\ BodyOf(r') = Some(NopCloser("*strings.Reader", Encode(last'.arg)))
                /\ ContentTypeOf(r') = Str("application/x-www-form-urlencoded")
          [] last'.op = "MultipartForm" ->
                /\ ContentTypeOf(r').text = "multipart/form-data; boundary="
                /\ Val(BodyOf(r')).inner = "*bytes.Buffer"
                /\ Val(BodyOf(r')).pos = 0
                /\ HasSuffix(Val(BodyOf(r')).data, ClosingDelimiter(ContentTypeOf(r').tail))
          [] last'.op = "Body" ->
                /\ BodyOf(r') = last'.arg
                /\ Val(r'.req).Header = Val(r.req).Header
          [] last'.op = "SetHeader" ->
                BodyOf(r') = BodyOf(r)
          [] OTHER ->
                /\ BodyOf(r') = BodyOf(r)
                /\ ContentTypeOf(r') = ContentTypeOf(r)]_vars

\* A raw Body call was made after Json: the body is the new one, the
\* Content-Type is still Json's.
C8_Witness ==
    /\ pc = "config"
    /\ last.op = "Body"
    /\ r.err = NoErr
    /\ ~r.panicked
    /\ BodyOf(r) = last.arg
    /\ ContentTypeOf(r) = Str("application/json")

\* C9: if Json(v) fails to serialize v, the sticky error becomes the
\* serialization error and the draft request (body, content length, replay
\* function, headers) is what it was before the call.
C9_JsonFailureLeavesRequest ==
    [][(/\ ConfigStep
        /\ r.err = NoErr
        /\ last'.op = "Json"
        /\ Marshal(last'.arg).err # NoErr)
          => /\ r'.err = Marshal(last'.arg).err
             /\ r'.req = r.req
             /\ r'.retryTimes = r.retryTimes]_vars

\* Json failed on a builder that already had a body and a Content-Type.
C9_Witness ==
    /\ last.op = "Json"
    /\ r.err = "json: unsupported value: NaN"
    /\ ~IsNil(r.req)
    /\ ~IsNil(BodyOf(r))
    /\ ContentTypeOf(r) # Str("")

\* The files of the form of a MultipartForm call, in iteration order.
FilesOf(arg) == Flatten(arg.form.File, arg.forder)

\* Whether opening or copying file f fails, and with which error.
FileFails(f) == FileHeader(f).openErr # NoErr \/ FileHeader(f).readErr # NoErr
FileErr(f) == IF FileHeader(f).openErr # NoErr
              THEN FileHeader(f).openErr ELSE FileHeader(f).readErr

\* The first file of the sequence that fails, or 0.
FirstFailing(files) ==
    IF \E k \in DOMAIN files : FileFails(files[k][2])
    THEN CHOOSE k \in DOMAIN files :
            /\ FileFails(files[k][2])
            /\ \A j \in 1..(k - 1) : ~FileFails(files[j][2])
    ELSE 0

\* The calls on files when encoding stops at file k: every file before it is
\* opened and closed, file k is opened, and closed if the open succeeded.
EventsUpTo(files, k) ==
    Concat([j \in 1..k |->
              IF FileHeader(files[j][2]).openErr # NoErr
              THEN << <<"Open", files[j][2]>> >>
              ELSE << <<"Open", files[j][2]>>, <<"Close", files[j][2]>> >>])

\* C10: if opening or copying a file fails during MultipartForm, encoding
\* stops at that file, its error becomes the sticky error, no opened file is
\* left open, and the draft request (body, Content-Type) is what it was.
C10_MultipartFailureAborts ==
    [][(/\ ConfigStep
        /\ r.err = NoErr
        /\ last'.op = "MultipartForm"
        /\ FirstFailing(FilesOf(last'.arg)) > 0)
          => LET files == FilesOf(last'.arg)
                 k == FirstFailing(files)
             IN /\ r'.err = FileErr(files[k][2])
                /\ r'.req = r.req
                /\ out'.events = EventsUpTo(files, k)
                /\ \A f \in FileIds : handles'[f] = 0]_vars

\* Copying the first of two files failed: it was opened and closed, the
\* second was never opened, and the body set before is still there.
C10_Witness ==
    /\ last.op = "MultipartForm"
    /\ r.err = "read c: input/output error"
    /\ Len(FilesOf(last.arg)) = 2
    /\ out.events = << <<"Open", "fC">>, <<"Close", "fC">> >>
    /\ ~IsNil(BodyOf(r))
    /\ \A f \in FileIds : handles[f] = 0

\* ------------------------------------------------- reading a query string
\* The bytes url.QueryEscape writes as %XX.
EscapedBytes == {"\"", "#", "%", "&", "+", ",", "/", ":", ";", "<", "=", ">", "?",
                 "\\", "{", "}"}

RECURSIVE QueryUnescape(_)
\* url.QueryUnescape: "+" is a space, %XX the byte it encodes; a "%" that two
\* hex digits do not follow is an error.
QueryUnescape(s) ==
    IF s = <<>> THEN [ok |-> TRUE, val |-> <<>>]
    ELSE IF Head(s) = "%"
    THEN IF Len(s) >= 3 /\ \E c \in EscapedBytes : HexOf(c) = <<s[2], s[3]>>
         THEN LET c == CHOOSE c \in EscapedBytes : HexOf(c) = <<s[2], s[3]>>
                  rest == QueryUnescape(SubSeq(s, 4, Len(s)))
              IN [ok |-> rest.ok, val |-> <<c>> \o rest.val]
         ELSE [ok |-> FALSE, val |-> <<>>]
    ELSE LET rest == QueryUnescape(Tail(s))
         IN [ok |-> rest.ok,
             val |-> <<IF Head(s) = "+" THEN " " ELSE Head(s)>> \o rest.val]

\* strings.Cut: the text before and after the first sep, if there is one.
Cut(s, sep) ==
    IF IsIn(sep, s)
    THEN LET i == CHOOSE i \in 1..Len(s) : s[i] = sep /\ \A j \in 1..(i - 1) : s[j] # sep
         IN [before |-> SubSeq(s, 1, i - 1), after |-> SubSeq(s, i + 1, Len(s))]
    ELSE [before |-> s, after |-> <<>>]

RECURSIVE QueryPairs(_)
\* The loop of url.ParseQuery: the (key, value) pairs of a raw query, in
\* order; a segment that is empty, holds a ";" or does not unescape is dropped.
QueryPairs(query) ==
    IF query = <<>> THEN <<>>
    ELSE LET c == Cut(query, "&")
             kv == Cut(c.before, "=")
             k == QueryUnescape(kv.before)
             v == QueryUnescape(kv.after)
             rest == QueryPairs(c.after)
         IN IF c.before = <<>> \/ IsIn(";", c.before) \/ ~k.ok \/ ~v.ok
            THEN rest
            ELSE << <<k.val, v.val>> >> \o rest

\* The values of key among pairs, in order.
ValuesOf(pairs, key) ==
    LET Is(p) == p[1] = key
        sel == SelectSeq(pairs, Is)
    IN [i \in 1..Len(sel) |-> sel[i][2]]

\* url.ParseQuery, as URL.Query() calls it: a url.Values.
ParseQuery(query) ==
    LET pairs == QueryPairs(query)
    IN [k \in {pairs[i][1] : i \in DOMAIN pairs} |-> ValuesOf(pairs, k)]

\* Whether value is among the values of key in a url.Values.
Retrievable(values, key, value) ==
    key \in DOMAIN values /\ IsIn(value, values[key])

\* The pairs a Query or AddQuery call adds, as a map.
AddedBy(call) ==
    IF call.op = "Query" THEN call.arg
    ELSE [k \in {call.arg[1]} |-> call.arg[2]]

\* C11: query parameters are appended, never lost: after a Query or AddQuery
\* call every pair that was retrievable from the URL's parsed query before
\* the call, and every pair the call adds, is retrievable with its own value.
C11_QueryPairsNeverLost ==
    [][(ConfigStep /\ r.err = NoErr /\ last'.op \in {"Query", "AddQuery"})
          => LET before == ParseQuery(Val(r.req).RawQuery)
                 after == ParseQuery(Val(r'.req).RawQuery)
                 added == AddedBy(last')
             IN /\ \A k \in DOMAIN before : \A i \in DOMAIN before[k] :
                      Retrievable(after, k, before[k][i])
                /\ \A k \in DOMAIN added : Retrievable(after, k, added[k])]_vars

\* ------------------------------------------------------------ header names
\* strings.EqualFold on header names: equal up to letter case.
EqualFold(a, b) ==
    Len(a) = Len(b) /\ \A i \in 1..Len(a) : ToLower(a[i]) = ToLower(b[i])

\* A header name written as given, in lower case, in upper case and in
\* canonical form.
CaseVariants(k) ==
    {k, [i \in 1..Len(k) |-> ToLower(k[i])], [i \in 1..Len(k) |-> ToUpper(k[i])],
     CanonicalMIMEHeaderKey(k)}

\* C12: SetHeader is overwrite-set and case-insensitive: after a SetHeader
\* call with no sticky error a lookup of the name in any letter case returns
\* the value of that call, exactly one value is stored for the name, and the
\* values of every other name are as the earlier calls left them.
C12_SetHeaderOverwritesCaseInsensitively ==
    [][(ConfigStep /\ r.err = NoErr /\ last'.op = "SetHeader")
          => LET key == last'.arg[1]
                 value == last'.arg[2]
                 h == Val(r.req).Header
                 h2 == Val(r'.req).Header
                 same == {k \in DOMAIN h2 : EqualFold(k, key)}
             IN /\ \A k2 \in CaseVariants(key) : HeaderGet(h2, k2) = value
                /\ Cardinality(same) = 1
                /\ \A k \in same : h2[k] = <<value>>
                /\ \A k \in DOMAIN h2 \ same : k \in DOMAIN h /\ h2[k] = h[k]
                /\ \A k \in DOMAIN h : ~EqualFold(k, key) => k \in DOMAIN h2]_vars

\* A second call has overwritten X-A under another letter case of the name.
C12_Witness ==
    /\ pc = "config" /\ nCalls = 2 /\ r.err = NoErr
    /\ last.op = "SetHeader" /\ last.arg = <<<<"X","-","a">>, Str("2")>>
    /\ DOMAIN Val(r.req).Header = {<<"X","-","A">>}
    /\ HeaderGet(Val(r.req).Header, <<"x","-","a">>) = Str("2")

\* ------------------------------------------------------------ finalization
\* C13: with no sticky error BuildWithContext(ctx) returns a request with the
\* builder's method, URL, headers and body; for the background context it is
\* the builder's own request, for any other context a request bound to ctx,
\* and the builder (draft request and its context, error slot, retry count)
\* is left as it was.  Build() returns what BuildWithContext(background) does.
C13_BuildWithContextBindsWithoutTouchingBuilder ==
    [][(pc = "config" /\ pc' = "done" /\ r.err = NoErr
          /\ last'.op \in {"Build", "BuildWithContext"})
          => LET ctx == IF last'.op = "Build" THEN "background" ELSE last'.arg
                 draft == Val(r.req)
             IN /\ r' = r
                /\ draft.ctx = "background"
                /\ out'.err = NoErr
                /\ ~IsNil(out'.req)
                /\ Val(out'.req) = [draft EXCEPT !.ctx = ctx]
                /\ out'.alias <=> (ctx = "background")
                /\ out'.alias => out'.req = r'.req]_vars

\* A configured builder was finalized under a context that carries a value.
C13_Witness ==
    /\ pc = "done" /\ last.op = "BuildWithContext" /\ last.arg = "withValue"
    /\ r.err = NoErr /\ nCalls = 2
    /\ ~out.alias
    /\ Val(out.req).ctx = "withValue"
    /\ Val(r.req).ctx = "background"
    /\ Val(out.req).Method = "POST"
    /\ Val(out.req).Body = Val(r.req).Body /\ Val(r.req).Body # NoBody

\* ------------------------------------------------------------ reading JSON
RECURSIVE ScanString(_)
\* The scanner of encoding/json inside a string literal, after its opening
\* quote: the decoded text and what follows the closing quote.  Of the \uXXXX
\* escapes it decodes the code points below 0x80 that json.Marshal writes.
ScanString(s) ==
    IF s = <<>> THEN [ok |-> FALSE, val |-> <<>>, rest |-> <<>>]
    ELSE IF Head(s) = "\"" THEN [ok |-> TRUE, val |-> <<>>, rest |-> Tail(s)]
    ELSE IF Head(s) = "\\"
    THEN IF Len(s) >= 2 /\ s[2] \in {"\"", "\\", "/"}
         THEN LET t == ScanString(SubSeq(s, 3, Len(s)))
              IN [t EXCEPT !.val = <<s[2]>> \o t.val]
         ELSE IF Len(s) >= 6 /\ s[2] = "u"
                 /\ \E c \in {"&", "<", ">"} : JsonByte(c) = SubSeq(s, 1, 6)
         THEN LET c == CHOOSE c \in {"&", "<", ">"} : JsonByte(c) = SubSeq(s, 1, 6)
                  t == ScanString(SubSeq(s, 7, Len(s)))
              IN [t EXCEPT !.val = <<c>> \o t.val]
         ELSE [ok |-> FALSE, val |-> <<>>, rest |-> <<>>]
    ELSE LET t == ScanString(Tail(s))
         IN [t EXCEPT !.val = <<Head(s)>> \o t.val]

\* A string literal at the head of s.
ScanLiteral(s) ==
    IF s # <<>> /\ Head(s) = "\"" THEN ScanString(Tail(s))
    ELSE [ok |-> FALSE, val |-> <<>>, rest |-> <<>>]

RECURSIVE ScanMembers(_, _)
\* The members "key":"value" of an object, s being what follows "{" or ",";
\* m the members read so far.
ScanMembers(s, m) ==
    LET k == ScanLiteral(s)
        v == IF k.ok /\ k.rest # <<>> /\ Head(k.rest) = ":"
             THEN ScanLiteral(Tail(k.rest))
             ELSE [ok |-> FALSE, val |-> <<>>, rest |-> <<>>]
        m2 == [x \in DOMAIN m \cup {k.val} |-> IF x = k.val THEN v.val ELSE m[x]]
    IN IF ~v.ok \/ v.rest = <<>> THEN [ok |-> FALSE, m |-> <<>>]
       ELSE IF v.rest = <<"}">> THEN [ok |-> TRUE, m |-> m2]
       ELSE IF Head(v.rest) = "," THEN ScanMembers(Tail(v.rest), m2)
       ELSE [ok |-> FALSE, m |-> <<>>]

\* json.Unmarshal into an interface / a map[string]string: the value read
\* from data, on the documents json.Marshal writes for the model's values.
Unmarshal(data) ==
    IF data = <<"n","u","l","l">> THEN [ok |-> TRUE, v |-> [kind |-> "nil", m |-> <<>>]]
    ELSE IF data = <<"{", "}">> THEN [ok |-> TRUE, v |-> [kind |-> "map", m |-> <<>>]]
    ELSE IF data # <<>> /\ Head(data) = "{"
    THEN LET res == ScanMembers(Tail(data), <<>>)
         IN [ok |-> res.ok, v |-> [kind |-> "map", m |-> res.m]]
    ELSE [ok |-> FALSE, v |-> [kind |-> "nil", m |-> <<>>]]

\* C14: after a successful Json(v) on a builder with no sticky error the
\* request carries Content-Type: application/json (one value) and a body whose
\* bytes are exactly json.Marshal(v), which reads back as v, whatever body or
\* Content-Type the builder held before.
C14_JsonSetsHeaderAndSerializedBody ==
    (pc = "config" /\ last.op = "Json" /\ r.err = NoErr)
       => /\ ContentTypeOf(r) = Str("application/json")
          /\ Val(r.req).Header[ContentType] = <<Str("application/json")>>
          /\ Marshal(last.arg).err = NoErr
          /\ Yields(BodyOf(r)) = Marshal(last.arg).data
          /\ Unmarshal(Yields(BodyOf(r))) = [ok |-> TRUE, v |-> last.arg]

\* Json({"k": "v&"}) was the second call on a builder and succeeded.
C14_Witness ==
    /\ pc = "config" /\ nCalls = 2 /\ last.op = "Json" /\ r.err = NoErr
    /\ last.arg.kind = "map"
    /\ Yields(BodyOf(r)) = <<"{", "\"", "k", "\"", ":", "\"", "v", "\\", "u", "0", "0",
                             "2", "6", "\"", "}">>
    /\ ContentTypeOf(r) = Str("application/json")

\* ------------------------------------------------------------- form bodies
\* C15: after PostForm(values) on a builder with no sticky error the request
\* carries Content-Type: application/x-www-form-urlencoded (one value) and a
\* body whose bytes are exactly values.Encode() (k=v for {k: [v]}), which
\* parses back to values, whatever body or Content-Type was set before.
C15_PostFormSetsHeaderAndEncodedBody ==
    (pc = "config" /\ last.op = "PostForm" /\ r.err = NoErr)
       => /\ ContentTypeOf(r) = Str("application/x-www-form-urlencoded")
          /\ Val(r.req).Header[ContentType] = <<Str("application/x-www-form-urlencoded")>>
          /\ Yields(BodyOf(r)) = Encode(last.arg)
          /\ ParseQuery(Yields(BodyOf(r))) = last.arg
          /\ last.arg = [k \in {<<"k">>} |-> << <<"v">> >>]
                => Yields(BodyOf(r)) = <<"k", "=", "v">>

\* PostForm({"k": ["v", "&"]}) was the second call on a builder; the second
\* value is escaped in the body.
C15_Witness ==
    /\ pc = "config" /\ nCalls = 2 /\ last.op = "PostForm" /\ r.err = NoErr
    /\ last.arg = [k \in {<<"k">>} |-> << <<"v">>, <<"&">> >>]
    /\ Yields(BodyOf(r)) = <<"k", "=", "v", "&", "k", "=", "%", "2", "6">>
    /\ ContentTypeOf(r) = Str("application/x-www-form-urlencoded")

\* ------------------------------------------------- reading a multipart body
\* Whether s begins with p, and the position of the first p in s (0: none).
HasPrefix(s, p) == Len(s) >= Len(p) /\ SubSeq(s, 1, Len(p)) = p
Index(s, p) ==
    LET at == {i \in 1..(Len(s) - Len(p) + 1) : SubSeq(s, i, i + Len(p) - 1) = p}
    IN IF at = {} THEN 0 ELSE CHOOSE i \in at : \A j \in at : i <= j
After(s, n) == SubSeq(s, n + 1, Len(s))

RECURSIVE ScanQuoted(_)
\* A quoted parameter value of Content-Disposition after its opening quote,
\* as mime.ParseMediaType reads it: \c stands for c, a quote ends it.
ScanQuoted(s) ==
    IF s = <<>> THEN [ok |-> FALSE, val |-> <<>>, rest |-> <<>>]
    ELSE IF Head(s) = "\"" THEN [ok |-> TRUE, val |-> <<>>, rest |-> Tail(s)]
    ELSE IF Head(s) = "\\"
    THEN IF Len(s) >= 2
         THEN LET t == ScanQuoted(After(s, 2)) IN [t EXCEPT !.val = <<s[2]>> \o t.val]
         ELSE [ok |-> FALSE, val |-> <<>>, rest |-> <<>>]
    ELSE LET t == ScanQuoted(Tail(s)) IN [t EXCEPT !.val = <<Head(s)>> \o t.val]

\* Part.FormName and Part.FileName from the header lines of a part.
PartHeader(lines) ==
    IF ~HasPrefix(lines, ContentDisposition)
    THEN [ok |-> FALSE, name |-> <<>>, filename |-> Nil]
    ELSE LET n == ScanQuoted(After(lines, Len(ContentDisposition)))
             param == Tail(FilenameParam)
         IN IF ~n.ok THEN [ok |-> FALSE, name |-> <<>>, filename |-> Nil]
            ELSE IF n.rest = <<>> THEN [ok |-> TRUE, name |-> n.val, filename |-> Nil]
            ELSE IF HasPrefix(n.rest, param)
            THEN LET f == ScanQuoted(After(n.rest, Len(param)))
                 IN [ok |-> f.ok /\ f.rest = CRLF \o OctetStream,
                     name |-> n.val, filename |-> Some(f.val)]
            ELSE [ok |-> FALSE, name |-> <<>>, filename |-> Nil]

RECURSIVE NextParts(_, _)
\* multipart.Reader.NextPart, repeated to the end: s is what follows a
\* delimiter "--boundary".  "--" makes it the terminating marker and ends the
\* reading (what follows is an epilogue the reader never looks at); CRLF
\* opens a part, whose header lines end at a blank line and whose content
\* ends at the next CRLF "--boundary".
NextParts(s, boundary) ==
    LET failed == [ok |-> FALSE, parts |-> <<>>, epilogue |-> <<>>]
        delim == CRLF \o Dashes \o boundary
    IN IF HasPrefix(s, Dashes)
       THEN [ok |-> TRUE, parts |-> <<>>, epilogue |-> After(s, 2)]
       ELSE IF ~HasPrefix(s, CRLF) THEN failed
       ELSE LET t == After(s, 2)
                hEnd == Index(t, CRLF \o CRLF)
                c == After(t, hEnd + 3)
                cEnd == Index(c, delim)
            IN IF hEnd = 0 \/ cEnd = 0 THEN failed
               ELSE LET h == PartHeader(SubSeq(t, 1, hEnd - 1))
                        rest == NextParts(After(c, cEnd - 1 + Len(delim)), boundary)
                    IN IF ~h.ok \/ ~rest.ok THEN failed
                       ELSE [rest EXCEPT !.parts =
                               << [name |-> h.name, filename |-> h.filename,
                                   content |-> SubSeq(c, 1, cEnd - 1)] >> \o rest.parts]

\* multipart.NewReader(body, boundary) read to the end: the parts, and what
\* follows the terminating marker.
ReadParts(body, boundary) ==
    IF HasPrefix(body, Dashes \o boundary)
    THEN NextParts(After(body, 2 + Len(boundary)), boundary)
    ELSE IF HasPrefix(body, CRLF \o Dashes \o boundary \o Dashes)
    THEN [ok |-> TRUE, parts |-> <<>>, epilogue |-> After(body, 6 + Len(boundary))]
    ELSE [ok |-> FALSE, parts |-> <<>>, epilogue |-> <<>>]

\* The parts a form asks for: its fields, then its files, the keys of each
\* map in the given order.
PartsOf(form, vorder, forder) ==
    LET fields == Flatten(form.Value, vorder)
        files == Flatten(form.File, forder)
    IN [i \in 1..Len(fields) |->
          [name |-> fields[i][1], filename |-> Nil, content |-> fields[i][2]]]
       \o [i \in 1..Len(files) |->
          [name |-> files[i][1], filename |-> Some(FileHeader(files[i][2]).Filename),
           content |-> FileHeader(files[i][2]).content]]

\* C16: after a successful MultipartForm(form) the body reads as exactly one
\* part per (field name, value) pair and one per file of the form, each with
\* its name and content, followed by the terminating boundary marker; the
\* Content-Type header is multipart/form-data with the boundary that delimits
\* the parts in the body.
C16_MultipartBodyHasOnePartPerEntry ==
    (pc = "config" /\ last.op = "MultipartForm" /\ r.err = NoErr)
       => LET ct == ContentTypeOf(r)
              read == ReadParts(Yields(BodyOf(r)), ct.tail)
          IN /\ ct.text = "multipart/form-data; boundary="
             /\ ct.tail \in Boundaries
             /\ read.ok
             /\ HasPrefix(read.epilogue, CRLF)
             /\ \E vorder \in Orders(DOMAIN last.arg.form.Value) :
                   read.parts = PartsOf(last.arg.form, vorder, last.arg.forder)

\* A form of two values of one field and one file was written: three parts.
C16_Witness ==
    /\ pc = "config" /\ last.op = "MultipartForm" /\ r.err = NoErr
    /\ Len(ReadParts(Yields(BodyOf(r)), ContentTypeOf(r).tail).parts) = 3
    /\ ReadParts(Yields(BodyOf(r)), ContentTypeOf(r).tail).parts[3] =
          [name |-> <<"f">>, filename |-> Some(<<"a">>), content |-> <<"x", "y">>]

\* -------------------------------------------------- zero length and unknown
\* C17: if a replay function exists and the declared length is zero, the body
\* is http.NoBody and the replay function returns http.NoBody; conversely a
\* body that is not the sentinel and has declared length 0 has no replay
\* function and is of unknown length, never a recognized source with no bytes
\* left: zero length and unknown length are distinguishable in every state.
C17_ZeroLengthDistinguishableFromUnknown ==
    (r.err = NoErr /\ ~r.panicked /\ ~IsNil(r.req))
       => LET q == Val(r.req)
          IN /\ (~IsNil(q.GetBody) /\ q.ContentLength = 0)
                   => (q.Body = Some(NoBody) /\ q.GetBody = Some(NoBody))
             /\ (~IsNil(q.Body) /\ q.Body # Some(NoBody) /\ q.ContentLength = 0)
                   => /\ IsNil(q.GetBody)
                      /\ ~(Val(q.Body).inner \in Recognized /\ Remaining(Val(q.Body)) = <<>>)

\* The body handed to the most recent body-setting call is a recognized
\* source behind a no-op closer (Json and PostForm always pass one).
MostRecentIsRecognized ==
    last.op = "Body" => (Val(last.arg).typ = "io.nopCloser"
                         /\ Val(last.arg).inner \in Recognized)

\* C18: after any sequence of body-setting calls the declared length and the
\* replay function describe the body set by the most recent call: a
\* recognized body has its byte count and a replay function; an unrecognized
\* body has no replay function and no known length and is itself the
\* request's body, whatever an earlier call had set.
C18_MetadataDescribesMostRecentBody ==
    (pc = "config" /\ r.err = NoErr /\ ~r.panicked
        /\ last.op \in {"Body", "Json", "PostForm"})
       => LET q == Val(r.req)
          IN IF MostRecentIsRecognized
             THEN /\ q.ContentLength = Len(SourceBytes)
                  /\ ~IsNil(q.GetBody)
             ELSE /\ q.ContentLength = 0
                  /\ IsNil(q.GetBody)
                  /\ q.Body = last.arg

\* ------------------------------------------------------ the retry count
\* C19: for every retryTimes a uint can hold, values above the largest int
\* included, Do with no sticky error makes at least one transport call and
\* returns exactly one of a response and a non-nil error, never neither.
C19_DoMakesACallForEveryRetryCount ==
    DoReturned =>
       /\ out.calls >= 1
       /\ (~IsNil(out.resp)) # (out.err # NoErr)

\* ------------------------------------------------------- a failed New
\* The errors New can latch.
NewErrors == {ParseURL(url).err : url \in Urls} \ {NoErr}

\* C20: if New fails to parse the URL the error is latched and there is no
\* draft request; every chain of configuration calls on that builder (Method,
\* the verb wrappers, Body and Retry included) completes without touching the
\* absent request, and a following Build or Do returns New's error.
C20_FailedNewIsSafeToConfigure ==
    IsNil(r.req)
       => /\ r.err \in NewErrors
          /\ ~r.panicked
          /\ pc = "done" => /\ out.err = r.err
                            /\ IsNil(out.req)
                            /\ IsNil(out.resp)
                            /\ out.calls = 0

====
